---- MODULE Spec2Model ----
(***************************************************************************)
(* A model of the chunk-allocated doubly linked list of src/src/lib.rs.    *)
(*                                                                         *)
(* Node slots are the addresses 1..MaxSlots of one address space shared by *)
(* two lists "a" and "b"; NULL is the null pointer.  node[s] holds the raw *)
(* next/prev/value fields exactly as the code leaves them, so a link that  *)
(* the code does not reset is still there for the next operation to read.  *)
(*                                                                         *)
(* init is the set of slots that own an initialized value: the live nodes. *)
(* Moving a value out (ptr::read) or destroying it (drop_in_place) leaves  *)
(* the slot without a value (Uninit).  An operation that goes through a    *)
(* chain pointer to a slot that is not a live node (it moves out, destroys *)
(* or relinks a free slot), or that writes a new node over a live one, has *)
(* used memory after it was freed: the model performs that operation as    *)
(* the machine would, raises fault, and does not follow the program beyond *)
(* it.                                                                     *)
(*                                                                         *)
(* Arithmetic on usize is the arithmetic of the build with overflow checks *)
(* (the build in which the debug assertions and the tests run): len -= 1   *)
(* at len = 0 panics, and the unwinding keeps what was stored before it.   *)
(***************************************************************************)
EXTENDS Integers, Sequences, FiniteSets, TLC

\* ---------------------------------------------------------------- bounds
MaxSlots == 3
MaxChunk == 1
MaxVal == 2
MaxCalls == 4
MaxChunkSize == 2

\* ------------------------------------------------------------- constants
DefaultChunkSize == 64
NULL == 0
Uninit == -1

Slots == 1..MaxSlots
Values == 1..MaxVal
Lists == {"a", "b"}

VARIABLES
  list,      \* list[l]: the fields of struct LinkedList
  node,      \* node[s]: the fields of struct LinkedNode at address s
  brk,       \* number of slots handed out by the system allocator so far
  init,      \* slots that currently own an initialized value
  fault,     \* an operation has used a value slot that owned no value
  pc,        \* "idle", or "retain_map" while the callback of retain_map runs
  frame,     \* the local variables of the running retain_map
  dropped,   \* lists whose Drop has run
  released,  \* chunk descriptors given back to the allocator, in order
  op,        \* the last call: name, receiver, result, panicked
  cur,       \* the fields of the CursorMut that borrows a list, if any
  it         \* the iterator that borrows or owns a list, if any

vars ==
  <<list, node, brk, init, fault, pc, frame, dropped, released, op, cur, it>>

\* The lists and the memory as one value that the operators thread.
World ==
  [list |-> list, node |-> node, brk |-> brk, init |-> init, fault |-> fault]

Op(name, l, ret, panicked) ==
  [name |-> name, l |-> l, ret |-> ret, panicked |-> panicked]

\* LinkedList::new()
NewList ==
  [head |-> NULL, tail |-> NULL, len |-> 0, capacity |-> 0,
   chunk_size |-> DefaultChunkSize, allocations |-> <<>>, unused_nodes |-> NULL]

\* ------------------------------------------------------------ traversals
RECURSIVE WalkNext(_, _, _)
\* the slots visited by following next from p for at most n nodes
WalkNext(nd, p, n) ==
  IF n = 0 \/ p \notin Slots THEN <<>>
  ELSE <<p>> \o WalkNext(nd, nd[p].next, n - 1)

RECURSIVE WalkPrev(_, _, _)
\* the slots visited by following prev from p for at most n nodes
WalkPrev(nd, p, n) ==
  IF n = 0 \/ p \notin Slots THEN <<>>
  ELSE <<p>> \o WalkPrev(nd, nd[p].prev, n - 1)

Reverse(s) == [i \in 1..Len(s) |-> s[Len(s) + 1 - i]]
ValuesOf(nd, path) == [i \in 1..Len(path) |-> nd[path[i]].value]
SeqToSet(s) == {s[i] : i \in 1..Len(s)}
NoDuplicates(s) == Cardinality(SeqToSet(s)) = Len(s)

\* LinkedList::iter() consumed with next(): head, then next, len times
IterSlots(w, l) == WalkNext(w.node, w.list[l].head, w.list[l].len)
\* LinkedList::iter() consumed with next_back(): tail, then prev, len times
IterBackSlots(w, l) == WalkPrev(w.node, w.list[l].tail, w.list[l].len)
Elems(w, l) == ValuesOf(w.node, IterSlots(w, l))
ElemsBack(w, l) == ValuesOf(w.node, IterBackSlots(w, l))
\* the free list: unused_nodes, then next until null
FreeSlots(w, l) == WalkNext(w.node, w.list[l].unused_nodes, MaxSlots + 1)

\* ------------------------------------------------------- value ownership
\* ptr::read(&(*s).value): the value moves out of the slot
take(w, s) ==
  [w EXCEPT !.init = w.init \ {s},
            !.node[s].value = Uninit,
            !.fault = w.fault \/ s \notin w.init]

\* (*s).next, (*s).prev read or written through a pointer into the live chain
use(w, s) == [w EXCEPT !.fault = w.fault \/ s \notin w.init]

\* (*p).next = v and (*p).prev = v; a null p is a crash, counted as a fault
set_next(w, p, v) ==
  IF p \in Slots THEN [use(w, p) EXCEPT !.node[p].next = v]
  ELSE [w EXCEPT !.fault = TRUE]
set_prev(w, p, v) ==
  IF p \in Slots THEN [use(w, p) EXCEPT !.node[p].prev = v]
  ELSE [w EXCEPT !.fault = TRUE]

\* ptr::write(&mut (*s).value, v)
write_value(w, s, v) ==
  [w EXCEPT !.node[s].value = v, !.init = w.init \cup {s}]

\* ptr::drop_in_place(&mut (*s).value): the destructor runs on the slot
drop_in_place(w, s) == take(w, s)

\* ------------------------------------------------------------- the arena
CanAllocate(w, amount) == w.brk + amount <= MaxSlots

\* LinkedList::allocate
allocate(w, l, amount) ==
  IF amount = 0 THEN w
  ELSE
    LET base == w.brk + 1
        capacity == amount
        L == w.list[l]
    IN [w EXCEPT
          !.brk = w.brk + capacity,
          !.list[l].capacity = L.capacity + capacity,
          !.list[l].allocations = Append(L.allocations, <<base, capacity>>),
          !.list[l].unused_nodes = base,
          !.node = [s \in Slots |->
                      IF s >= base /\ s < base + capacity
                      THEN [w.node[s] EXCEPT
                              !.next = IF s = base + capacity - 1
                                       THEN L.unused_nodes ELSE s + 1]
                      ELSE w.node[s]]]

\* discard_node as it would be if it linked the node to the free list and
\* left unused_nodes as it was
discard_node_lost(w, l, n) ==
  [w EXCEPT !.node[n].next = w.list[l].unused_nodes]

\* LinkedList::discard_node
discard_node(w, l, n) ==
  [w EXCEPT !.node[n].next = w.list[l].unused_nodes,
            !.list[l].unused_nodes = n]

NewNodeEnabled(w, l) ==
  w.list[l].unused_nodes # NULL \/ CanAllocate(w, w.list[l].chunk_size)

\* LinkedList::new_node: the world after the call and the slot it returns
new_node(w, l, next, prev, value) ==
  LET w1 == IF w.list[l].unused_nodes = NULL
            THEN allocate(w, l, w.list[l].chunk_size) ELSE w
      n == w1.list[l].unused_nodes
  IN [w |-> [w1 EXCEPT
               !.list[l].unused_nodes = w1.node[n].next,
               !.node[n] = [next |-> next, prev |-> prev, value |-> value],
               !.init = w1.init \cup {n},
               !.fault = w1.fault \/ n \in w1.init],
      node |-> n]

\* ------------------------------------------------------------ operations
NoFrame == [l |-> "a", ptr |-> NULL, next_ptr |-> NULL, last_retain |-> NULL,
            capacity |-> 0, new_head |-> NULL, retained |-> 0, arg |-> Uninit,
            old |-> <<>>, calls |-> <<>>]

Commit(w) ==
  /\ list' = w.list
  /\ node' = w.node
  /\ brk' = w.brk
  /\ init' = w.init
  /\ fault' = w.fault

\* no cursor: the fields of struct CursorMut when no list is borrowed
NoCursor == [list |-> "a", cursor |-> NULL, index |-> 0]

\* no iterator: it.i holds the fields of struct Iter, IterMut or IntoIter,
\* rev tells that the iterator is wrapped in Rev, and the other fields record
\* how the iterator was made (the constructor, the sequence of the list and
\* the index of the cursor at that moment) and how many items each end has
\* yielded since
NoIter ==
  [kind |-> "none", rev |-> FALSE, list |-> "a",
   i |-> [head |-> NULL, tail |-> NULL, len |-> 0],
   ctor |-> "none", s |-> <<>>, n |-> 0, index |-> 0, at |-> FALSE,
   fronts |-> 0, backs |-> 0, handed |-> <<>>]

\* no retain_map is running, no cursor and no iterator is held after the call
Idle == pc' = "idle" /\ frame' = NoFrame /\ cur' = NoCursor /\ it' = NoIter

\* Drop ends the modelled program run: the memory of the chunks is gone
Callable(l) == pc = "idle" /\ ~fault /\ dropped = {}

\* LinkedList::push_back
push_back(w, l, value) ==
  LET tail == w.list[l].tail
      r == new_node(w, l, NULL, tail, value)
      w1 == r.w
      w2 == IF w1.list[l].head = NULL
            THEN [w1 EXCEPT !.list[l].head = r.node] ELSE w1
      w3 == IF w2.list[l].tail # NULL
            THEN set_next(w2, tail, r.node) ELSE w2
  IN [w3 EXCEPT !.list[l].tail = r.node,
                !.list[l].len = w3.list[l].len + 1]

PushBack(l, v) ==
  /\ Callable(l)
  /\ NewNodeEnabled(World, l)
  /\ Commit(push_back(World, l, v))
  /\ op' = Op("push_back", l, <<>>, FALSE)
  /\ Idle /\ UNCHANGED <<dropped, released>>

\* LinkedList::push_front
push_front(w, l, value) ==
  LET head == w.list[l].head
      r == new_node(w, l, head, NULL, value)
      w1 == r.w
      w2 == IF w1.list[l].tail = NULL
            THEN [w1 EXCEPT !.list[l].tail = r.node] ELSE w1
      w3 == IF w2.list[l].head # NULL
            THEN set_prev(w2, head, r.node) ELSE w2
  IN [w3 EXCEPT !.list[l].head = r.node,
                !.list[l].len = w3.list[l].len + 1]

PushFront(l, v) ==
  /\ Callable(l)
  /\ NewNodeEnabled(World, l)
  /\ Commit(push_front(World, l, v))
  /\ op' = Op("push_front", l, <<>>, FALSE)
  /\ Idle /\ UNCHANGED <<dropped, released>>

\* pop_back as it would be if it kept the chain compact: the value of the
\* node before the tail moves into the slot of the tail, and the slot it
\* leaves is the one given back to the free list
pop_back_compact(w, l) ==
  IF w.list[l].tail = NULL THEN [w |-> w, ret |-> <<>>, panicked |-> FALSE]
  ELSE
    LET tail == w.list[l].tail
        p == w.node[tail].prev
    IN IF w.list[l].len = 0
       THEN [w |-> w, ret |-> <<>>, panicked |-> TRUE]
       ELSE IF p \notin Slots
       THEN [w |-> discard_node(
                     take([w EXCEPT !.list[l].tail = NULL,
                                    !.list[l].head = NULL,
                                    !.list[l].len = w.list[l].len - 1],
                          tail), l, tail),
             ret |-> <<w.node[tail].value>>, panicked |-> FALSE]
       ELSE
         LET pp == w.node[p].prev
             w1 == [w EXCEPT !.node[tail].value = w.node[p].value,
                             !.node[tail].prev = pp,
                             !.list[l].len = w.list[l].len - 1,
                             !.list[l].head = IF w.list[l].head = p
                                              THEN tail ELSE w.list[l].head]
             w2 == IF pp \in Slots
                   THEN [w1 EXCEPT !.node[pp].next = tail] ELSE w1
         IN [w |-> discard_node(take(w2, p), l, p),
             ret |-> <<w.node[tail].value>>, panicked |-> FALSE]

\* LinkedList::pop_back: the world after the call, the returned option, and
\* whether the call panicked (len -= 1 at len = 0)
pop_back(w, l) ==
  IF w.list[l].tail = NULL THEN [w |-> w, ret |-> <<>>, panicked |-> FALSE]
  ELSE
    LET tail == w.list[l].tail
        w1 == [use(w, tail) EXCEPT !.list[l].tail = w.node[tail].prev]
        w2 == IF w1.list[l].head = tail
              THEN [w1 EXCEPT !.list[l].head = NULL] ELSE w1
        w3 == [w2 EXCEPT !.list[l].len = w2.list[l].len - 1]
    IN IF w2.list[l].len = 0
       THEN [w |-> w2, ret |-> <<>>, panicked |-> TRUE]
       ELSE [w |-> discard_node(take(w3, tail), l, tail),
             ret |-> <<w.node[tail].value>>, panicked |-> FALSE]

\* pop_front as it would be if the slot of the popped node were given up:
\* capacity is decreased with len
pop_front_shrink(w, l) ==
  IF w.list[l].head = NULL THEN [w |-> w, ret |-> <<>>, panicked |-> FALSE]
  ELSE
    LET head == w.list[l].head
        w1 == [use(w, head) EXCEPT !.list[l].head = w.node[head].next]
        w2 == IF w1.list[l].tail = head
              THEN [w1 EXCEPT !.list[l].tail = NULL] ELSE w1
        w3 == [w2 EXCEPT !.list[l].len = w2.list[l].len - 1,
                         !.list[l].capacity = w2.list[l].capacity - 1]
    IN IF w2.list[l].len = 0
       THEN [w |-> w2, ret |-> <<>>, panicked |-> TRUE]
       ELSE [w |-> take(w3, head),
             ret |-> <<w.node[head].value>>, panicked |-> FALSE]

\* LinkedList::pop_front
pop_front(w, l) ==
  IF w.list[l].head = NULL THEN [w |-> w, ret |-> <<>>, panicked |-> FALSE]
  ELSE
    LET head == w.list[l].head
        w1 == [use(w, head) EXCEPT !.list[l].head = w.node[head].next]
        w2 == IF w1.list[l].tail = head
              THEN [w1 EXCEPT !.list[l].tail = NULL] ELSE w1
        w3 == [w2 EXCEPT !.list[l].len = w2.list[l].len - 1]
    IN IF w2.list[l].len = 0
       THEN [w |-> w2, ret |-> <<>>, panicked |-> TRUE]
       ELSE [w |-> discard_node(take(w3, head), l, head),
             ret |-> <<w.node[head].value>>, panicked |-> FALSE]

PopBack(l) ==
  /\ Callable(l)
  /\ Commit(pop_back(World, l).w)
  /\ op' = Op("pop_back", l, pop_back(World, l).ret, pop_back(World, l).panicked)
  /\ Idle /\ UNCHANGED <<dropped, released>>

PopFront(l) ==
  /\ Callable(l)
  /\ Commit(pop_front(World, l).w)
  /\ op' = Op("pop_front", l, pop_front(World, l).ret, pop_front(World, l).panicked)
  /\ Idle /\ UNCHANGED <<dropped, released>>

\* LinkedList::set_chunk_size: assert!(chunk_size > 0) panics before the store
\* set_chunk_size as it would be if it never stored its argument
set_chunk_size_ignored(w, l, chunk_size) == w

\* LinkedList::set_chunk_size
set_chunk_size(w, l, chunk_size) ==
  IF chunk_size > 0 THEN [w EXCEPT !.list[l].chunk_size = chunk_size] ELSE w

SetChunkSize(l, n) ==
  /\ Callable(l)
  /\ Commit(set_chunk_size(World, l, n))
  /\ op' = Op("set_chunk_size", l, <<>>, ~(n > 0)) @@ [arg |-> n]
  /\ Idle /\ UNCHANGED <<dropped, released>>

\* LinkedList::front and front_mut, LinkedList::back and back_mut: the
\* returned option, <<>> for None
front(w, l) ==
  IF w.list[l].head = NULL THEN <<>> ELSE <<w.node[w.list[l].head].value>>
back(w, l) ==
  IF w.list[l].tail = NULL THEN <<>> ELSE <<w.node[w.list[l].tail].value>>

\* LinkedList::is_empty
is_empty(w, l) == w.list[l].len = 0

\* combine_unused_nodes, the conditional mem::swap of the two free lists
combine_swap(w, self, other) ==
  LET S == w.list[self]
      O == w.list[other]
      swap == S.capacity - S.len < O.capacity - O.len
  IN IF swap
     THEN [w EXCEPT !.list[self].unused_nodes = O.unused_nodes,
                    !.list[other].unused_nodes = S.unused_nodes]
     ELSE w

\* combine_unused_nodes, the loop `while !(*ptr).next.is_null()`: the slots
\* that ptr points to in turn
combine_walk(w, self, other) == FreeSlots(combine_swap(w, self, other), other)

\* LinkedList::combine_unused_nodes
combine_unused_nodes(w, self, other) ==
  LET w1 == combine_swap(w, self, other)
      path == combine_walk(w, self, other)
      last == path[Len(path)]
  IN IF w1.list[other].unused_nodes = NULL THEN w1
     ELSE [w1 EXCEPT !.node[last].next = w1.list[self].unused_nodes,
                     !.list[self].unused_nodes = w1.list[other].unused_nodes,
                     !.list[other].unused_nodes = NULL]

\* LinkedList::append up to the call of combine_unused_nodes: the chains are
\* joined, the chunk descriptors and the capacity are moved
append_chains(w, self, other) ==
  LET S == w.list[self]
      O == w.list[other]
      w1 == IF is_empty(w, self)
            THEN [w EXCEPT !.list[self].head = O.head,
                           !.list[self].tail = O.tail,
                           !.list[self].len = O.len]
            ELSE IF is_empty(w, other) THEN w
            ELSE [set_prev(set_next(w, S.tail, O.head), O.head, S.tail)
                    EXCEPT !.list[self].tail = O.tail,
                           !.list[self].len = S.len + O.len]
      swap == Len(S.allocations) < Len(O.allocations)
      longer == IF swap THEN O.allocations ELSE S.allocations
      shorter == IF swap THEN S.allocations ELSE O.allocations
  IN [w1 EXCEPT !.list[self].allocations = longer \o shorter,
                !.list[other].allocations = <<>>,
                !.list[self].capacity = S.capacity + O.capacity]

\* LinkedList::append
append(w, self, other) ==
  LET w3 == combine_unused_nodes(append_chains(w, self, other), self, other)
  IN [w3 EXCEPT !.list[other].head = NULL,
                !.list[other].tail = NULL,
                !.list[other].len = 0,
                !.list[other].capacity = 0]

\* the free list of `other` ends (the loop of combine_unused_nodes terminates)
FreeListEnds(w, l) == Len(FreeSlots(w, l)) <= MaxSlots

AppendList(self, other) ==
  /\ self # other
  /\ Callable(self) /\ Callable(other)
  /\ FreeListEnds(World, self) /\ FreeListEnds(World, other)
  /\ Commit(append(World, self, other))
  /\ op' = Op("append", self, <<>>, FALSE)
            @@ [walked |-> combine_walk(append_chains(World, self, other),
                                        self, other)]
  /\ Idle /\ UNCHANGED <<dropped, released>>

\* ------------------------------------------------------------ retain_map
\* The loop of retain_map from its head to the next call of f or, when ptr
\* is null, through the statements after the loop.  The value of ptr is moved
\* into f, and next_ptr is read, before f runs.
retain_loop(w, fr) ==
  IF fr.ptr = NULL
  THEN [w |-> [w EXCEPT !.list[fr.l].head = fr.new_head,
                        !.list[fr.l].tail = fr.last_retain,
                        !.list[fr.l].len = fr.retained,
                        !.list[fr.l].capacity = fr.capacity],
        frame |-> [NoFrame EXCEPT !.l = fr.l, !.capacity = fr.capacity,
                                  !.old = fr.old, !.calls = fr.calls],
        pc |-> "idle"]
  ELSE [w |-> take(w, fr.ptr),
        frame |-> [fr EXCEPT !.next_ptr = w.node[fr.ptr].next,
                             !.arg = w.node[fr.ptr].value],
        pc |-> "retain_map"]

\* retain_map as it would be without the reset of head, tail and len before
\* the loop
retain_map_begin_live(w, l) ==
  IF is_empty(w, l)
  THEN [w |-> w,
        frame |-> [NoFrame EXCEPT !.l = l, !.capacity = w.list[l].capacity],
        pc |-> "idle"]
  ELSE retain_loop(w, [l |-> l, ptr |-> w.list[l].head, next_ptr |-> NULL,
                       last_retain |-> NULL, capacity |-> w.list[l].capacity,
                       new_head |-> NULL, retained |-> 0, arg |-> Uninit,
                       old |-> Elems(w, l), calls |-> <<>>])

\* LinkedList::retain_map up to the first call of f
retain_map_begin(w, l) ==
  IF is_empty(w, l)
  THEN [w |-> w,
        frame |-> [NoFrame EXCEPT !.l = l, !.capacity = w.list[l].capacity],
        pc |-> "idle"]
  ELSE
    LET fr == [l |-> l, ptr |-> w.list[l].head, next_ptr |-> NULL,
               last_retain |-> NULL, capacity |-> w.list[l].capacity,
               new_head |-> NULL, retained |-> 0, arg |-> Uninit,
               old |-> Elems(w, l), calls |-> <<>>]
        w1 == [w EXCEPT !.list[l].head = NULL,
                        !.list[l].tail = NULL,
                        !.list[l].len = 0]
        w2 == [w1 EXCEPT !.list[l].capacity = w1.list[l].capacity - w1.list[l].len]
    IN retain_loop(w2, fr)

\* LinkedList::retain_map from the return of f with d (<<>> for None, <<v>>
\* for Some(v)) to the next call of f or to the end of the method
retain_map_return(w, fr, d) ==
  LET ptr == fr.ptr
      fr1 == [fr EXCEPT !.calls = Append(fr.calls,
                           [slot |-> ptr, arg |-> fr.arg, ret |-> d])]
      w1 == IF d # <<>>
            THEN LET wv == write_value(w, ptr, d[1])
                     wl == IF fr.last_retain = NULL THEN wv
                           ELSE set_next(wv, fr.last_retain, ptr)
                 IN [wl EXCEPT !.node[ptr].prev = fr.last_retain]
            ELSE discard_node(w, fr.l, ptr)
      fr2 == IF d # <<>>
             THEN [fr1 EXCEPT !.new_head = IF fr.last_retain = NULL
                                           THEN ptr ELSE fr.new_head,
                              !.last_retain = ptr,
                              !.retained = fr.retained + 1]
             ELSE fr1
  IN retain_loop(w1, [fr2 EXCEPT !.ptr = fr.next_ptr])

RetainMapBegin(l) ==
  /\ Callable(l)
  /\ LET r == retain_map_begin(World, l)
     IN /\ Commit(r.w)
        /\ frame' = r.frame
        /\ pc' = r.pc
  /\ op' = Op("retain_map", l, <<>>, FALSE)
  /\ UNCHANGED <<dropped, released, cur, it>>

RetainMapReturn(d) ==
  /\ pc = "retain_map" /\ ~fault
  /\ Len(frame.calls) < MaxCalls
  /\ LET r == retain_map_return(World, frame, d)
     IN /\ Commit(r.w)
        /\ frame' = r.frame
        /\ pc' = r.pc
  /\ UNCHANGED <<dropped, released, op, cur, it>>

\* f panics: the stack unwinds out of retain_map
RetainMapPanic ==
  /\ pc = "retain_map" /\ ~fault
  /\ pc' = "idle"
  /\ op' = [op EXCEPT !.panicked = TRUE]
  /\ UNCHANGED <<list, node, brk, init, fault, frame, dropped, released, cur,
               it>>

\* ------------------------------------------------------- clear and Drop
RECURSIVE drop_prev(_, _, _)
\* the loop of clear: drop_in_place on p, then on its prev, until null; the
\* destructor of the budget-th value panics.  Stops at the first slot that
\* owns no value.
drop_prev(w, p, budget) ==
  IF p \notin Slots
  THEN [w |-> [w EXCEPT !.fault = w.fault \/ p # NULL], drops |-> <<>>]
  ELSE LET w1 == drop_in_place(w, p)
       IN IF w1.fault \/ budget = 1 THEN [w |-> w1, drops |-> <<p>>]
          ELSE LET r == drop_prev(w1, w.node[p].prev, budget - 1)
               IN [w |-> r.w, drops |-> <<p>> \o r.drops]

RECURSIVE drop_next(_, _)
\* the loop of Drop: drop_in_place on p, then on its next, until null
drop_next(w, p) ==
  IF p \notin Slots
  THEN [w |-> [w EXCEPT !.fault = w.fault \/ p # NULL], drops |-> <<>>]
  ELSE LET w1 == drop_in_place(w, p)
       IN IF w1.fault THEN [w |-> w1, drops |-> <<p>>]
          ELSE LET r == drop_next(w1, w.node[p].next)
               IN [w |-> r.w, drops |-> <<p>> \o r.drops]

\* LinkedList::clear; the destructor of the budget-th value dropped panics
\* (budget 0: none does).  A value whose destructor never ran is leaked: its
\* slot is on the free list and owns nothing any more.
clear(w, l, budget) ==
  IF w.list[l].tail = NULL
  THEN [w |-> w, drops |-> <<>>, panicked |-> FALSE]
  ELSE
    LET tail == w.list[l].tail
        w1 == [set_next(w, tail, w.list[l].unused_nodes)
                 EXCEPT !.list[l].unused_nodes = w.list[l].head]
        w2 == [w1 EXCEPT !.list[l].head = NULL,
                         !.list[l].tail = NULL,
                         !.list[l].len = 0]
        r == drop_prev(w2, tail, budget)
        full == drop_prev(w2, tail, 0)
        cut == Len(r.drops) < Len(full.drops)
    IN [w |-> IF cut
              THEN [r.w EXCEPT !.init = r.w.init \ SeqToSet(full.drops)]
              ELSE r.w,
        drops |-> r.drops,
        panicked |-> budget # 0 /\ Len(r.drops) = budget /\ ~r.w.fault]

Clear(l, budget) ==
  /\ Callable(l)
  /\ budget <= list[l].len
  /\ LET r == clear(World, l, budget)
     IN /\ Commit(r.w)
        /\ op' = Op("clear", l, r.drops, r.panicked)
  /\ Idle /\ UNCHANGED <<dropped, released>>

\* impl Drop for LinkedList
drop(w, l) == drop_next(w, w.list[l].head)

Drop(l) ==
  /\ Callable(l)
  /\ LET r == drop(World, l)
     IN /\ Commit(r.w)
        /\ op' = Op("drop", l, r.drops, FALSE)
  /\ released' = released \o list[l].allocations
  /\ dropped' = dropped \cup {l}
  /\ Idle

\* ---------------------------------------------------------------- reserve
\* free_capacity = capacity - len panics when len > capacity
reserve(w, l, additional) ==
  LET L == w.list[l]
      free_capacity == L.capacity - L.len
      to_allocate == additional - free_capacity
  IN IF L.len > L.capacity THEN [w |-> w, panicked |-> TRUE]
     ELSE IF free_capacity >= additional THEN [w |-> w, panicked |-> FALSE]
     ELSE IF to_allocate < L.chunk_size
          THEN [w |-> allocate(w, l, L.chunk_size), panicked |-> FALSE]
          ELSE [w |-> allocate(w, l, to_allocate), panicked |-> FALSE]

\* reserve_exact as it would be if it allocated `additional` slots whatever
\* the free capacity is
reserve_exact_whole(w, l, additional) ==
  LET L == w.list[l]
      free_capacity == L.capacity - L.len
  IN IF L.len > L.capacity THEN [w |-> w, panicked |-> TRUE]
     ELSE IF free_capacity >= additional THEN [w |-> w, panicked |-> FALSE]
     ELSE [w |-> allocate(w, l, additional), panicked |-> FALSE]

\* LinkedList::reserve_exact
reserve_exact(w, l, additional) ==
  LET L == w.list[l]
      free_capacity == L.capacity - L.len
      to_allocate == additional - free_capacity
  IN IF L.len > L.capacity THEN [w |-> w, panicked |-> TRUE]
     ELSE IF free_capacity >= additional THEN [w |-> w, panicked |-> FALSE]
     ELSE [w |-> allocate(w, l, to_allocate), panicked |-> FALSE]

\* the allocator can serve the call within the modelled address space
Fits(w) == w.brk <= MaxSlots

Reserve(l, additional) ==
  /\ Callable(l)
  /\ LET r == reserve(World, l, additional)
     IN /\ Fits(r.w)
        /\ Commit(r.w)
        /\ op' = Op("reserve", l, <<>>, r.panicked) @@ [arg |-> additional]
  /\ Idle /\ UNCHANGED <<dropped, released>>

ReserveExact(l, additional) ==
  /\ Callable(l)
  /\ LET r == reserve_exact(World, l, additional)
     IN /\ Fits(r.w)
        /\ Commit(r.w)
        /\ op' = Op("reserve_exact", l, <<>>, r.panicked)
                   @@ [arg |-> additional]
  /\ Idle /\ UNCHANGED <<dropped, released>>

\* ---------------------------------------------------------------- cursors
\* The index of a cursor is bounded: on a chain that a stale link has closed
\* into a cycle go_next succeeds for ever.
MaxIndex == MaxSlots + 1

\* CursorMut::create, CursorRef::create
create(l, cursor, index) == [list |-> l, cursor |-> cursor, index |-> index]

\* LinkedList::cursor_mut_front, cursor_ref_front: the returned option
cursor_mut_front(w, l) ==
  IF w.list[l].head = NULL THEN [some |-> FALSE, c |-> NoCursor, panicked |-> FALSE]
  ELSE [some |-> TRUE, c |-> create(l, w.list[l].head, 0), panicked |-> FALSE]

\* LinkedList::cursor_mut_back, cursor_ref_back: len - 1 panics at len = 0
cursor_mut_back(w, l) ==
  IF w.list[l].tail = NULL THEN [some |-> FALSE, c |-> NoCursor, panicked |-> FALSE]
  ELSE IF w.list[l].len = 0 THEN [some |-> FALSE, c |-> NoCursor, panicked |-> TRUE]
  ELSE [some |-> TRUE, c |-> create(l, w.list[l].tail, w.list[l].len - 1),
        panicked |-> FALSE]

\* CursorRef::next, and CursorMut::go_next seen as a function of the cursor
next(w, c) ==
  LET n == w.node[c.cursor].next
  IN IF n = NULL THEN [some |-> FALSE, c |-> c, panicked |-> FALSE]
     ELSE [some |-> TRUE, c |-> create(c.list, n, c.index + 1), panicked |-> FALSE]

\* CursorRef::prev, and CursorMut::go_prev: index - 1 panics at index 0
prev(w, c) ==
  LET n == w.node[c.cursor].prev
  IN IF n = NULL THEN [some |-> FALSE, c |-> c, panicked |-> FALSE]
     ELSE IF c.index = 0
          THEN [some |-> FALSE, c |-> create(c.list, n, c.index), panicked |-> TRUE]
          ELSE [some |-> TRUE, c |-> create(c.list, n, c.index - 1),
                panicked |-> FALSE]

\* CursorMut::is_front, CursorRef::is_front
is_front(w, c) == w.node[c.cursor].prev = NULL
\* CursorMut::is_back, CursorRef::is_back
is_back(w, c) == w.node[c.cursor].next = NULL

\* CursorMut::insert_next
insert_next(w, c, value) ==
  LET l == c.list
      nextnext == w.node[c.cursor].next
      r == new_node(use(w, c.cursor), l, nextnext, c.cursor, value)
      w1 == [r.w EXCEPT !.list[l].len = r.w.list[l].len + 1]
      w2 == set_next(w1, c.cursor, r.node)
  IN IF nextnext = NULL THEN [w2 EXCEPT !.list[l].tail = r.node]
     ELSE set_prev(w2, nextnext, r.node)

\* CursorMut::insert_prev: the world and the cursor after the call
insert_prev(w, c, value) ==
  LET l == c.list
      prevprev == w.node[c.cursor].prev
      r == new_node(use(w, c.cursor), l, c.cursor, prevprev, value)
      w1 == [r.w EXCEPT !.list[l].len = r.w.list[l].len + 1]
      w2 == set_prev(w1, c.cursor, r.node)
  IN [w |-> IF prevprev = NULL THEN [w2 EXCEPT !.list[l].head = r.node]
            ELSE set_next(w2, prevprev, r.node),
      c |-> create(l, c.cursor, c.index + 1)]

\* CursorMut::remove: the world after the call, the value returned, whether
\* len -= 1 panicked (at len = 0, after the node was discarded), and the
\* neighbours the method read
remove(w, c) ==
  LET l == c.list
      p == w.node[c.cursor].prev
      n == w.node[c.cursor].next
      w0 == use(w, c.cursor)
      w1 == IF p = NULL THEN [w0 EXCEPT !.list[l].head = n]
            ELSE set_next(w0, p, n)
      w2 == IF n = NULL THEN [w1 EXCEPT !.list[l].tail = p]
            ELSE set_prev(w1, n, p)
      w3 == discard_node(take(w2, c.cursor), l, c.cursor)
  IN IF w3.list[l].len = 0
     THEN [w |-> w3, ret |-> <<>>, panicked |-> TRUE, prev |-> p, next |-> n]
     ELSE [w |-> [w3 EXCEPT !.list[l].len = w3.list[l].len - 1],
           ret |-> <<w.node[c.cursor].value>>, panicked |-> FALSE,
           prev |-> p, next |-> n]

\* CursorMut::remove_go_next: as remove, and the returned cursor option
remove_go_next(w, c) ==
  LET r == remove(w, c)
  IN [w |-> r.w, ret |-> r.ret, panicked |-> r.panicked,
      some |-> ~r.panicked /\ r.next # NULL,
      c |-> create(c.list, r.next, c.index)]

\* CursorMut::remove_go_prev: the returned cursor is tested on next, and
\* index - 1 panics at index 0
remove_go_prev(w, c) ==
  LET r == remove(w, c)
  IN [w |-> r.w,
      ret |-> IF r.next # NULL /\ c.index = 0 THEN <<>> ELSE r.ret,
      panicked |-> r.panicked \/ (r.next # NULL /\ c.index = 0),
      some |-> ~r.panicked /\ r.next # NULL /\ c.index # 0,
      c |-> create(c.list, r.prev, IF c.index = 0 THEN 0 ELSE c.index - 1)]

\* CursorMut::swap: the world after the call and the value returned
swap(w, c, value) ==
  [w |-> write_value(take(w, c.cursor), c.cursor, value),
   ret |-> <<w.node[c.cursor].value>>]

\* a cursor is held and its pointer can be dereferenced
CursorHeld == pc = "cursor" /\ ~fault /\ cur.cursor \in Slots

\* the cursor is kept by the caller after the call
KeepCursor(c) ==
  pc' = "cursor" /\ cur' = c /\ frame' = NoFrame /\ it' = NoIter

CursorMutFront(l) ==
  /\ Callable(l)
  /\ LET r == cursor_mut_front(World, l)
     IN /\ op' = Op("cursor_mut_front", l,
                    IF r.some THEN <<r.c.index>> ELSE <<>>, r.panicked)
        /\ IF r.some THEN KeepCursor(r.c) ELSE Idle
  /\ UNCHANGED <<list, node, brk, init, fault, dropped, released>>

CursorMutBack(l) ==
  /\ Callable(l)
  /\ LET r == cursor_mut_back(World, l)
     IN /\ op' = Op("cursor_mut_back", l,
                    IF r.some THEN <<r.c.index>> ELSE <<>>, r.panicked)
        /\ IF r.some THEN KeepCursor(r.c) ELSE Idle
  /\ UNCHANGED <<list, node, brk, init, fault, dropped, released>>

\* CursorMut::go_next
GoNext ==
  /\ CursorHeld
  /\ cur.index < MaxIndex
  /\ LET r == next(World, cur)
     IN /\ op' = Op("go_next", cur.list, <<r.some>>, r.panicked)
        /\ KeepCursor(r.c)
  /\ Commit(use(World, cur.cursor))
  /\ UNCHANGED <<dropped, released>>

\* CursorMut::go_prev
GoPrev ==
  /\ CursorHeld
  /\ LET r == prev(World, cur)
     IN /\ op' = Op("go_prev", cur.list, <<r.some>>, r.panicked)
        /\ IF r.panicked THEN Idle ELSE KeepCursor(r.c)
  /\ Commit(use(World, cur.cursor))
  /\ UNCHANGED <<dropped, released>>

InsertNext(v) ==
  /\ CursorHeld
  /\ NewNodeEnabled(World, cur.list)
  /\ Commit(insert_next(World, cur, v))
  /\ op' = Op("insert_next", cur.list, <<>>, FALSE)
  /\ KeepCursor(cur)
  /\ UNCHANGED <<dropped, released>>

InsertPrev(v) ==
  /\ CursorHeld
  /\ cur.index < MaxIndex
  /\ NewNodeEnabled(World, cur.list)
  /\ Commit(insert_prev(World, cur, v).w)
  /\ op' = Op("insert_prev", cur.list, <<>>, FALSE)
  /\ KeepCursor(insert_prev(World, cur, v).c)
  /\ UNCHANGED <<dropped, released>>

Remove ==
  /\ CursorHeld
  /\ LET r == remove(World, cur)
     IN /\ Commit(r.w)
        /\ op' = Op("remove", cur.list, r.ret, r.panicked)
  /\ Idle /\ UNCHANGED <<dropped, released>>

RemoveGoNext ==
  /\ CursorHeld
  /\ LET r == remove_go_next(World, cur)
     IN /\ Commit(r.w)
        /\ op' = Op("remove_go_next", cur.list, r.ret, r.panicked)
        /\ IF r.some THEN KeepCursor(r.c) ELSE Idle
  /\ UNCHANGED <<dropped, released>>

RemoveGoPrev ==
  /\ CursorHeld
  /\ LET r == remove_go_prev(World, cur)
     IN /\ Commit(r.w)
        /\ op' = Op("remove_go_prev", cur.list, r.ret, r.panicked)
        /\ IF r.some THEN KeepCursor(r.c) ELSE Idle
  /\ UNCHANGED <<dropped, released>>

Swap(v) ==
  /\ CursorHeld
  /\ LET r == swap(World, cur, v)
     IN /\ Commit(r.w)
        /\ op' = Op("swap", cur.list, r.ret, FALSE)
  /\ KeepCursor(cur)
  /\ UNCHANGED <<dropped, released>>

\* the caller lets go of the cursor: the borrow of the list ends
CursorDrop ==
  /\ pc = "cursor" /\ ~fault
  /\ op' = Op("cursor_drop", cur.list, <<>>, FALSE)
  /\ Idle
  /\ UNCHANGED <<list, node, brk, init, fault, dropped, released>>

\* -------------------------------------------------------------- iterators
\* LinkedList::iter: the fields of the new Iter
iter(w, l) ==
  [head |-> w.list[l].head, tail |-> w.list[l].tail, len |-> w.list[l].len]

\* impl IntoIterator for LinkedList: the fields of the new IntoIter
into_iter(w, l) ==
  [head |-> w.list[l].head, tail |-> w.list[l].tail, len |-> w.list[l].len,
   allocations |-> w.list[l].allocations]

\* CursorMut::iter_to_tail; list.len - index panics when index > len
iter_to_tail(w, c) ==
  [i |-> [head |-> c.cursor, tail |-> w.list[c.list].tail,
          len |-> IF c.index > w.list[c.list].len THEN 0
                  ELSE w.list[c.list].len - c.index],
   rev |-> FALSE,
   panicked |-> c.index > w.list[c.list].len]

\* CursorMut::iter_from_tail
iter_from_tail(w, c) == [iter_to_tail(w, c) EXCEPT !.rev = TRUE]

\* CursorMut::iter_from_head
iter_from_head(w, c) ==
  [i |-> [head |-> w.list[c.list].head, tail |-> c.cursor,
          len |-> c.index + 1],
   rev |-> FALSE,
   panicked |-> FALSE]

\* CursorMut::iter_to_head
iter_to_head(w, c) == [iter_from_head(w, c) EXCEPT !.rev = TRUE]

\* the result of a call of next or next_back
Yield(w, i, ret, slot, panicked) ==
  [w |-> w, i |-> i, ret |-> ret, slot |-> slot, panicked |-> panicked]

\* Iter::next; the debug assertion panics on a null head, and a head that
\* was never written is a wild pointer
Iter_next(w, i) ==
  IF i.len > 0
  THEN IF i.head = NULL THEN Yield(w, i, <<>>, NULL, TRUE)
       ELSE IF i.head \notin Slots
       THEN Yield([w EXCEPT !.fault = TRUE], i, <<>>, NULL, FALSE)
       ELSE Yield(use(w, i.head),
                  [i EXCEPT !.head = w.node[i.head].next, !.len = i.len - 1],
                  <<w.node[i.head].value>>, i.head, FALSE)
  ELSE Yield(w, i, <<>>, NULL, FALSE)

\* Iter::next_back
Iter_next_back(w, i) ==
  IF i.len > 0
  THEN IF i.tail = NULL THEN Yield(w, i, <<>>, NULL, TRUE)
       ELSE IF i.tail \notin Slots
       THEN Yield([w EXCEPT !.fault = TRUE], i, <<>>, NULL, FALSE)
       ELSE Yield(use(w, i.tail),
                  [i EXCEPT !.tail = w.node[i.tail].prev, !.len = i.len - 1],
                  <<w.node[i.tail].value>>, i.tail, FALSE)
  ELSE Yield(w, i, <<>>, NULL, FALSE)

\* IterMut::next
IterMut_next(w, i) ==
  IF i.len > 0
  THEN IF i.head = NULL THEN Yield(w, i, <<>>, NULL, TRUE)
       ELSE IF i.head \notin Slots
       THEN Yield([w EXCEPT !.fault = TRUE], i, <<>>, NULL, FALSE)
       ELSE Yield(use(w, i.head),
                  [i EXCEPT !.head = w.node[i.head].next, !.len = i.len - 1],
                  <<w.node[i.head].value>>, i.head, FALSE)
  ELSE Yield(w, i, <<>>, NULL, FALSE)

\* IterMut::next_back
IterMut_next_back(w, i) ==
  IF i.len > 0
  THEN IF i.tail = NULL THEN Yield(w, i, <<>>, NULL, TRUE)
       ELSE IF i.tail \notin Slots
       THEN Yield([w EXCEPT !.fault = TRUE], i, <<>>, NULL, FALSE)
       ELSE Yield(use(w, i.tail),
                  [i EXCEPT !.tail = w.node[i.tail].prev, !.len = i.len - 1],
                  <<w.node[i.tail].value>>, i.tail, FALSE)
  ELSE Yield(w, i, <<>>, NULL, FALSE)

\* IntoIter::next: the value is moved out of the node
IntoIter_next(w, i) ==
  IF i.len > 0
  THEN IF i.head = NULL THEN Yield(w, i, <<>>, NULL, TRUE)
       ELSE IF i.head \notin Slots
       THEN Yield([w EXCEPT !.fault = TRUE], i, <<>>, NULL, FALSE)
       ELSE Yield(take(w, i.head),
                  [i EXCEPT !.head = w.node[i.head].next, !.len = i.len - 1],
                  <<w.node[i.head].value>>, i.head, FALSE)
  ELSE Yield(w, i, <<>>, NULL, FALSE)

\* IntoIter::next_back
IntoIter_next_back(w, i) ==
  IF i.len > 0
  THEN IF i.tail = NULL THEN Yield(w, i, <<>>, NULL, TRUE)
       ELSE IF i.tail \notin Slots
       THEN Yield([w EXCEPT !.fault = TRUE], i, <<>>, NULL, FALSE)
       ELSE Yield(take(w, i.tail),
                  [i EXCEPT !.tail = w.node[i.tail].prev, !.len = i.len - 1],
                  <<w.node[i.tail].value>>, i.tail, FALSE)
  ELSE Yield(w, i, <<>>, NULL, FALSE)

RECURSIVE IntoIter_drop(_, _)
\* impl Drop for IntoIter, the loop `while let Some(_) = self.next() {}`:
\* every value that next() still yields is destroyed; drops lists the slots
IntoIter_drop(w, i) ==
  LET r == IntoIter_next(w, i)
  IN IF r.ret = <<>> THEN [w |-> r.w, drops |-> <<>>, panicked |-> r.panicked]
     ELSE LET d == IntoIter_drop(r.w, r.i)
          IN [d EXCEPT !.drops = <<r.slot>> \o d.drops]

\* IntoIter::count: returns len; self goes out of scope and is dropped
IntoIter_count(w, i) ==
  [ret |-> <<i.len>>, slot |-> NULL, drop |-> IntoIter_drop(w, i)]

\* IntoIter::last: moves the value of the tail out and returns it; self goes
\* out of scope and is dropped
IntoIter_last(w, i) ==
  IF i.len > 0
  THEN IF i.tail = NULL
       THEN [ret |-> <<>>, slot |-> NULL,
             drop |-> [IntoIter_drop(w, i) EXCEPT !.panicked = TRUE]]
       ELSE IF i.tail \notin Slots
       THEN [ret |-> <<>>, slot |-> NULL,
             drop |-> IntoIter_drop([w EXCEPT !.fault = TRUE], i)]
       ELSE [ret |-> <<w.node[i.tail].value>>, slot |-> i.tail,
             drop |-> IntoIter_drop(take(w, i.tail), i)]
  ELSE [ret |-> <<>>, slot |-> NULL, drop |-> IntoIter_drop(w, i)]

\* the call of next() or next_back() on the iterator as the caller holds it:
\* Rev turns next into next_back of the iterator it wraps
Step(w, t, from_back) ==
  LET inner_back == (from_back # t.rev)
  IN CASE t.kind = "iter" ->
            IF inner_back THEN Iter_next_back(w, t.i) ELSE Iter_next(w, t.i)
       [] t.kind = "iter_mut" ->
            IF inner_back THEN IterMut_next_back(w, t.i)
            ELSE IterMut_next(w, t.i)
       [] OTHER ->
            IF inner_back THEN IntoIter_next_back(w, t.i)
            ELSE IntoIter_next(w, t.i)

RECURSIVE Collect(_, _)
\* Iterator::collect: the items that repeated calls of next() yield
Collect(w, t) ==
  LET r == Step(w, t, FALSE)
  IN IF r.ret = <<>> THEN <<>>
     ELSE r.ret \o Collect(r.w, [t EXCEPT !.i = r.i])

IterHeld == pc = "iter" /\ ~fault

\* the iterator is kept by the caller after the call
KeepIter(t) == pc' = "iter" /\ it' = t /\ cur' = NoCursor /\ frame' = NoFrame

\* a new iterator over list l, with the record of how it was made
Made(kind, rev, l, i, ctor, index, at) ==
  [kind |-> kind, rev |-> rev, list |-> l, i |-> i, ctor |-> ctor,
   s |-> Elems(World, l), n |-> list[l].len, index |-> index, at |-> at,
   fronts |-> 0, backs |-> 0, handed |-> <<>>]

IterCreate(l) ==
  /\ Callable(l)
  /\ op' = Op("iter", l, <<>>, FALSE)
  /\ KeepIter(Made("iter", FALSE, l, iter(World, l), "iter", 0, TRUE))
  /\ UNCHANGED <<list, node, brk, init, fault, dropped, released>>

\* into_iter moves the list into the iterator: the list is gone
IntoIterCreate(l) ==
  /\ Callable(l)
  /\ op' = Op("into_iter", l, <<>>, FALSE)
  /\ KeepIter(Made("into_iter", FALSE, l, into_iter(World, l), "into_iter",
                   0, TRUE))
  /\ UNCHANGED <<list, node, brk, init, fault, dropped, released>>

\* one of the four conversions of a cursor into an iterator
CursorIter(ctor, r) ==
  /\ CursorHeld
  /\ op' = Op(ctor, cur.list, <<>>, r.panicked)
  /\ IF r.panicked THEN Idle
     ELSE KeepIter(Made("iter_mut", r.rev, cur.list, r.i, ctor, cur.index,
                        cur.index < Len(IterSlots(World, cur.list))
                          /\ IterSlots(World, cur.list)[cur.index + 1]
                               = cur.cursor))
  /\ UNCHANGED <<list, node, brk, init, fault, dropped, released>>

IterToTail == CursorIter("iter_to_tail", iter_to_tail(World, cur))
IterFromTail == CursorIter("iter_from_tail", iter_from_tail(World, cur))
IterFromHead == CursorIter("iter_from_head", iter_from_head(World, cur))
IterToHead == CursorIter("iter_to_head", iter_to_head(World, cur))

\* next() or next_back() called on the iterator
IterStep(from_back) ==
  /\ IterHeld
  /\ LET r == Step(World, it, from_back)
     IN /\ Commit(r.w)
        /\ op' = Op(IF from_back THEN "next_back" ELSE "next", it.list, r.ret,
                    r.panicked)
        /\ KeepIter([it EXCEPT
                       !.i = r.i,
                       !.fronts = IF ~from_back /\ r.ret # <<>> THEN @ + 1 ELSE @,
                       !.backs = IF from_back /\ r.ret # <<>> THEN @ + 1 ELSE @,
                       !.handed = IF r.ret # <<>> THEN Append(@, r.slot)
                                  ELSE @])
  /\ UNCHANGED <<dropped, released>>

IterNext == IterStep(FALSE)
IterNextBack == IterStep(TRUE)

\* the end of an IntoIter: what is left is destroyed, and the chunks are
\* released unless the destructor was left by a panic
IntoIterEnd(name, ret, slot, d) ==
  /\ Commit(d.w)
  /\ op' = [name |-> name, l |-> it.list, ret |-> ret, panicked |-> d.panicked,
            drops |-> d.drops,
            handed |-> IF slot = NULL THEN it.handed
                       ELSE Append(it.handed, slot)]
  /\ released' = IF d.panicked THEN released
                 ELSE released \o it.i.allocations
  /\ dropped' = dropped \cup {it.list}
  /\ pc' = "idle" /\ frame' = NoFrame /\ cur' = NoCursor /\ it' = it

\* the caller lets go of the iterator
IterDrop ==
  /\ IterHeld
  /\ IF it.kind = "into_iter"
     THEN IntoIterEnd("iter_drop", <<>>, NULL, IntoIter_drop(World, it.i))
     ELSE /\ op' = Op("iter_drop", it.list, <<>>, FALSE)
          /\ Idle
          /\ UNCHANGED <<list, node, brk, init, fault, dropped, released>>

IntoIterCount ==
  /\ IterHeld /\ it.kind = "into_iter"
  /\ LET r == IntoIter_count(World, it.i)
     IN IntoIterEnd("count", r.ret, r.slot, r.drop)

IntoIterLast ==
  /\ IterHeld /\ it.kind = "into_iter"
  /\ LET r == IntoIter_last(World, it.i)
     IN IntoIterEnd("last", r.ret, r.slot, r.drop)

\* ------------------------------------------------- clone and comparison
\* LinkedList::with_capacity: list l becomes a new list with cap free slots
with_capacity(w, l, cap) == allocate([w EXCEPT !.list[l] = NewList], l, cap)

RECURSIVE clone_loop(_, _, _)
\* the loop of clone: push_back on list l of every item that the Iter i over
\* the source yields; a debug assertion of next() that fails ends it
clone_loop(w, i, l) ==
  LET r == Iter_next(w, i)
  IN IF r.ret = <<>> THEN [w |-> r.w, panicked |-> r.panicked]
     ELSE clone_loop(push_back(r.w, l, r.ret[1]), r.i, l)

\* Clone for LinkedList: the clone of list self is built in list l
clone(w, self, l) ==
  clone_loop(with_capacity(w, l, w.list[self].len), iter(w, self), l)

RECURSIVE eq_loop(_, _, _)
\* the loop of eq over self.iter().zip(other.iter())
eq_loop(w, i, j) ==
  LET a == Iter_next(w, i)
      b == Iter_next(a.w, j)
  IN IF a.ret = <<>> THEN [w |-> a.w, ret |-> TRUE, panicked |-> a.panicked]
     ELSE IF b.ret = <<>>
     THEN [w |-> b.w, ret |-> TRUE, panicked |-> b.panicked]
     ELSE IF a.ret # b.ret
     THEN [w |-> b.w, ret |-> FALSE, panicked |-> FALSE]
     ELSE eq_loop(b.w, a.i, b.i)

\* PartialEq<LinkedList<U>> for LinkedList<T>
eq(w, self, other) ==
  IF w.list[self].len # w.list[other].len
  THEN [w |-> w, ret |-> FALSE, panicked |-> FALSE]
  ELSE eq_loop(w, iter(w, self), iter(w, other))

RECURSIVE cmp_loop(_, _, _)
\* the loop of cmp over self.iter().zip(other.iter()): zip asks the first
\* iterator, then the second, and ends when either has no element left
cmp_loop(w, i, j) ==
  LET a == Iter_next(w, i)
      b == Iter_next(a.w, j)
  IN IF a.ret = <<>>
     THEN [w |-> a.w, ret |-> "Equal", panicked |-> a.panicked]
     ELSE IF b.ret = <<>>
     THEN [w |-> b.w, ret |-> "Equal", panicked |-> b.panicked]
     ELSE IF a.ret[1] < b.ret[1]
     THEN [w |-> b.w, ret |-> "Less", panicked |-> FALSE]
     ELSE IF a.ret[1] > b.ret[1]
     THEN [w |-> b.w, ret |-> "Greater", panicked |-> FALSE]
     ELSE cmp_loop(b.w, a.i, b.i)

\* Ord::cmp for LinkedList
cmp(w, self, other) == cmp_loop(w, iter(w, self), iter(w, other))

\* self.cmp(&other)
Cmp(self, other) ==
  /\ self # other
  /\ Callable(self) /\ Callable(other)
  /\ LET r == cmp(World, self, other)
     IN /\ Commit(r.w)
        /\ op' = Op("cmp", self, <<r.ret>>, r.panicked)
  /\ Idle /\ UNCHANGED <<dropped, released>>

\* let l = self.clone(), for a list variable l that holds no list yet
Clone(self, l) ==
  /\ Callable(self)
  /\ list[l] = NewList
  /\ CanAllocate(World, list[self].len)
  /\ LET r == clone(World, self, l)
     IN /\ Commit(r.w)
        /\ op' = Op("clone", self, <<>>, r.panicked)
  /\ Idle /\ UNCHANGED <<dropped, released>>

\* the results f can return: None, or Some(v)
Decisions == {<<>>} \cup {<<v>> : v \in Values}

Init ==
  /\ list = [l \in Lists |-> NewList]
  /\ node = [s \in Slots |-> [next |-> NULL, prev |-> Uninit, value |-> Uninit]]
  /\ brk = 0
  /\ init = {}
  /\ fault = FALSE
  /\ pc = "idle"
  /\ frame = NoFrame
  /\ dropped = {}
  /\ released = <<>>
  /\ op = Op("new", "a", <<>>, FALSE)
  /\ cur = NoCursor
  /\ it = NoIter

Next ==
  \/ \E l \in Lists, v \in Values : PushBack(l, v)
  \/ \E l \in Lists, v \in Values : PushFront(l, v)
  \/ \E l \in Lists : PopBack(l)
  \/ \E l \in Lists : PopFront(l)
  \/ \E l \in Lists, n \in 0..MaxChunk : SetChunkSize(l, n)
  \/ AppendList("a", "b")
  \/ \E l \in Lists : RetainMapBegin(l)
  \/ \E d \in Decisions : RetainMapReturn(d)
  \/ RetainMapPanic
  \/ \E l \in Lists, k \in 0..MaxSlots : Clear(l, k)
  \/ \E l \in Lists : Drop(l)
  \/ \E l \in Lists, n \in 0..MaxSlots : Reserve(l, n)
  \/ \E l \in Lists, n \in 0..MaxSlots : ReserveExact(l, n)
  \/ \E l \in Lists : CursorMutFront(l)
  \/ \E l \in Lists : CursorMutBack(l)
  \/ GoNext
  \/ GoPrev
  \/ \E v \in Values : InsertNext(v)
  \/ \E v \in Values : InsertPrev(v)
  \/ Remove
  \/ RemoveGoNext
  \/ RemoveGoPrev
  \/ \E v \in Values : Swap(v)
  \/ CursorDrop
  \/ \E l \in Lists : IterCreate(l)
  \/ \E l \in Lists : IntoIterCreate(l)
  \/ IterToTail
  \/ IterFromTail
  \/ IterFromHead
  \/ IterToHead
  \/ IterNext
  \/ IterNextBack
  \/ IterDrop
  \/ IntoIterCount
  \/ IntoIterLast
  \/ Clone("a", "b")
  \/ Cmp("a", "b")
  \/ Cmp("b", "a")

Spec == Init /\ [][Next]_vars

\* One list used as a double-ended queue only.
NextDeque ==
  \/ \E v \in Values : PushBack("a", v)
  \/ \E v \in Values : PushFront("a", v)
  \/ PopBack("a")
  \/ PopFront("a")
  \/ \E n \in 0..MaxChunk : SetChunkSize("a", n)

SpecDeque == Init /\ [][NextDeque]_vars

\* A list that pushes at its front and pops at both ends, a second list that
\* is filled at its back, and append of the second to the first.
NextAppend ==
  \/ \E v \in Values : PushFront("a", v)
  \/ PopBack("a")
  \/ PopFront("a")
  \/ \E n \in 0..MaxChunk : SetChunkSize("a", n)
  \/ \E v \in Values : PushBack("b", v)
  \/ \E n \in 0..MaxChunk : SetChunkSize("b", n)
  \/ AppendList("a", "b")

SpecAppend == Init /\ [][NextAppend]_vars

\* One list under the queue operations and retain_map.
NextRetain ==
  \/ \E v \in Values : PushBack("a", v)
  \/ \E v \in Values : PushFront("a", v)
  \/ PopBack("a")
  \/ PopFront("a")
  \/ \E n \in 0..MaxChunk : SetChunkSize("a", n)
  \/ RetainMapBegin("a")
  \/ \E d \in Decisions : RetainMapReturn(d)
  \/ RetainMapPanic

SpecRetain == Init /\ [][NextRetain]_vars

\* One list under the queue operations and clear.
NextClear ==
  \/ \E v \in Values : PushBack("a", v)
  \/ \E v \in Values : PushFront("a", v)
  \/ PopBack("a")
  \/ PopFront("a")
  \/ \E n \in 0..MaxChunk : SetChunkSize("a", n)
  \/ \E k \in 0..MaxSlots : Clear("a", k)

SpecClear == Init /\ [][NextClear]_vars

\* One list under the queue operations, dropped at the end.
NextDrop ==
  \/ \E v \in Values : PushBack("a", v)
  \/ \E v \in Values : PushFront("a", v)
  \/ PopBack("a")
  \/ PopFront("a")
  \/ \E n \in 0..MaxChunk : SetChunkSize("a", n)
  \/ Drop("a")

SpecDrop == Init /\ [][NextDrop]_vars

\* One list that is filled at its back and pops at both ends, and a mutable
\* cursor on it that moves.
NextCursorMove ==
  \/ \E v \in Values : PushBack("a", v)
  \/ PopBack("a")
  \/ PopFront("a")
  \/ \E n \in 0..MaxChunk : SetChunkSize("a", n)
  \/ CursorMutFront("a")
  \/ CursorMutBack("a")
  \/ GoNext
  \/ GoPrev
  \/ CursorDrop

SpecCursorMove == Init /\ [][NextCursorMove]_vars

\* The same with a cursor that moves and inserts.
NextCursorInsert ==
  \/ \E v \in Values : PushBack("a", v)
  \/ PopBack("a")
  \/ PopFront("a")
  \/ \E n \in 0..MaxChunk : SetChunkSize("a", n)
  \/ CursorMutFront("a")
  \/ CursorMutBack("a")
  \/ GoNext
  \/ GoPrev
  \/ CursorDrop
  \/ \E v \in Values : InsertNext(v)
  \/ \E v \in Values : InsertPrev(v)

SpecCursorInsert == Init /\ [][NextCursorInsert]_vars

\* The same with a cursor that moves and removes.
NextCursorRemove ==
  \/ \E v \in Values : PushBack("a", v)
  \/ PopBack("a")
  \/ PopFront("a")
  \/ \E n \in 0..MaxChunk : SetChunkSize("a", n)
  \/ CursorMutFront("a")
  \/ CursorMutBack("a")
  \/ GoNext
  \/ GoPrev
  \/ CursorDrop
  \/ Remove
  \/ RemoveGoNext
  \/ RemoveGoPrev

SpecCursorRemove == Init /\ [][NextCursorRemove]_vars

\* The same with a cursor that moves and swaps values.
NextCursorSwap ==
  \/ \E v \in Values : PushBack("a", v)
  \/ PopBack("a")
  \/ PopFront("a")
  \/ \E n \in 0..MaxChunk : SetChunkSize("a", n)
  \/ CursorMutFront("a")
  \/ CursorMutBack("a")
  \/ GoNext
  \/ GoPrev
  \/ CursorDrop
  \/ \E v \in Values : Swap(v)

SpecCursorSwap == Init /\ [][NextCursorSwap]_vars

\* One list, cursors that move, and the iterators made from them.
NextCursorIter ==
  \/ \E v \in Values : PushBack("a", v)
  \/ PopBack("a")
  \/ PopFront("a")
  \/ \E n \in 0..MaxChunk : SetChunkSize("a", n)
  \/ CursorMutFront("a")
  \/ CursorMutBack("a")
  \/ GoNext
  \/ GoPrev
  \/ CursorDrop
  \/ IterToTail
  \/ IterFromTail
  \/ IterFromHead
  \/ IterToHead
  \/ IterNext
  \/ IterNextBack
  \/ IterDrop

SpecCursorIter == Init /\ [][NextCursorIter]_vars

\* One list used as a double-ended queue, and the iterators over it.
NextIter ==
  \/ \E v \in Values : PushBack("a", v)
  \/ PopBack("a")
  \/ PopFront("a")
  \/ \E n \in 0..MaxChunk : SetChunkSize("a", n)
  \/ IterCreate("a")
  \/ IntoIterCreate("a")
  \/ IterNext
  \/ IterNextBack
  \/ IterDrop

SpecIter == Init /\ [][NextIter]_vars

\* One list used as a double-ended queue, and the owning iterator made of it.
NextIntoIter ==
  \/ \E v \in Values : PushBack("a", v)
  \/ PopBack("a")
  \/ PopFront("a")
  \/ \E n \in 0..MaxChunk : SetChunkSize("a", n)
  \/ IntoIterCreate("a")
  \/ IterNext
  \/ IterNextBack
  \/ IterDrop
  \/ IntoIterCount
  \/ IntoIterLast

SpecIntoIter == Init /\ [][NextIntoIter]_vars

\* One list used as a double-ended queue, and its clone.
NextClone ==
  \/ \E v \in Values : PushBack("a", v)
  \/ \E v \in Values : PushFront("a", v)
  \/ PopBack("a")
  \/ PopFront("a")
  \/ \E n \in 0..MaxChunk : SetChunkSize("a", n)
  \/ Clone("a", "b")

SpecClone == Init /\ [][NextClone]_vars

\* One list used as a double-ended queue, with reserve and reserve_exact.
NextReserve ==
  \/ \E v \in Values : PushBack("a", v)
  \/ PopBack("a")
  \/ \E n \in 0..MaxChunk : SetChunkSize("a", n)
  \/ \E n \in 0..MaxSlots : Reserve("a", n)
  \/ \E n \in 0..MaxSlots : ReserveExact("a", n)
  \/ RetainMapBegin("a")
  \/ \E d \in Decisions : RetainMapReturn(d)
  \/ RetainMapPanic

SpecReserve == Init /\ [][NextReserve]_vars

\* One list, everything that adds an element, and what frees or abandons
\* nodes.
NextGrow ==
  \/ \E v \in Values : PushBack("a", v)
  \/ \E v \in Values : PushFront("a", v)
  \/ PopBack("a")
  \/ \E n \in 0..MaxChunk : SetChunkSize("a", n)
  \/ CursorMutBack("a")
  \/ \E v \in Values : InsertNext(v)
  \/ \E v \in Values : InsertPrev(v)
  \/ CursorDrop
  \/ RetainMapBegin("a")
  \/ \E d \in Decisions : RetainMapReturn(d)
  \/ RetainMapPanic

SpecGrow == Init /\ [][NextGrow]_vars

\* One list used as a queue and a stack, with chunk sizes up to MaxChunkSize.
NextChunk ==
  \/ \E v \in Values : PushBack("a", v)
  \/ PopBack("a")
  \/ PopFront("a")
  \/ \E n \in 0..MaxChunkSize : SetChunkSize("a", n)

SpecChunk == Init /\ [][NextChunk]_vars

\* Two lists with free slots, one appended to the other.
NextAppendFree ==
  \/ \E v \in Values : PushBack("a", v)
  \/ \E n \in 0..MaxChunk : SetChunkSize("a", n)
  \/ \E n \in 0..MaxSlots : ReserveExact("a", n)
  \/ \E v \in Values : PushBack("b", v)
  \/ \E n \in 0..MaxChunk : SetChunkSize("b", n)
  \/ \E n \in 0..MaxSlots : ReserveExact("b", n)
  \/ AppendList("a", "b")

SpecAppendFree == Init /\ [][NextAppendFree]_vars

\* Everything that takes elements out of a list or replaces them, on a list
\* of equal values: pops, clear, retain_map, cursor removals and swap.
NextFrame ==
  \/ PushBack("a", 1)
  \/ PopBack("a")
  \/ PopFront("a")
  \/ SetChunkSize("a", 1)
  \/ Clear("a", 0)
  \/ RetainMapBegin("a")
  \/ \E d \in {<<>>, <<1>>} : RetainMapReturn(d)
  \/ RetainMapPanic
  \/ CursorMutFront("a")
  \/ Remove
  \/ RemoveGoNext
  \/ RemoveGoPrev
  \/ Swap(1)
  \/ CursorDrop

SpecFrame == Init /\ [][NextFrame]_vars

\* Two lists built by push_back and compared with each other.
NextCmp ==
  \/ \E l \in Lists, v \in Values : PushBack(l, v)
  \/ \E l \in Lists : SetChunkSize(l, 1)
  \/ Cmp("a", "b")
  \/ Cmp("b", "a")

SpecCmp == Init /\ [][NextCmp]_vars

\* A push, a pop, a cursor insertion and removal, reserve_exact, append and
\* retain_map on one list whose pushed elements are 1, fed by a second list
\* whose elements are 2; slots are allocated one at a time by reserve_exact.
NextStable ==
  \/ PushBack("a", 1)
  \/ PushFront("b", 2)
  \/ PopBack("a")
  \/ AppendList("a", "b")
  \/ \E l \in Lists : ReserveExact(l, 1)
  \/ RetainMapBegin("a")
  \/ \E d \in {<<>>, <<2>>} : RetainMapReturn(d)
  \/ CursorMutFront("a")
  \/ InsertNext(2)
  \/ Remove
  \/ CursorDrop

SpecStable == Init /\ [][NextStable]_vars

\* ------------------------------------------------------------------ C1
\* VecDeque::pop_back, pop_front: the returned option and the queue left
RefBack(q) == IF q = <<>> THEN <<>> ELSE <<q[Len(q)]>>
RefFront(q) == IF q = <<>> THEN <<>> ELSE <<q[1]>>
RefPopBack(q) == IF q = <<>> THEN <<>> ELSE SubSeq(q, 1, Len(q) - 1)
RefPopFront(q) == IF q = <<>> THEN <<>> ELSE Tail(q)

\* One call on list l, seen against a reference deque that holds the list's
\* element sequence before the call: the pop returns what the reference pop
\* returns, and afterwards the list holds what the reference holds and len()
\* is the reference length.
DequeStep(l) ==
  LET q == Elems(World, l)
      q1 == Elems(World', l)
      n1 == list'[l].len
  IN /\ op'.name = "pop_back" =>
          /\ ~op'.panicked /\ op'.ret = RefBack(q)
          /\ q1 = RefPopBack(q) /\ n1 = Len(RefPopBack(q))
     /\ op'.name = "pop_front" =>
          /\ ~op'.panicked /\ op'.ret = RefFront(q)
          /\ q1 = RefPopFront(q) /\ n1 = Len(RefPopFront(q))
     /\ op'.name = "push_back" =>
          /\ \E v \in Values : q1 = Append(q, v)
          /\ n1 = Len(q) + 1
     /\ op'.name = "push_front" =>
          /\ \E v \in Values : q1 = <<v>> \o q
          /\ n1 = Len(q) + 1

\* C1: for every sequence of push_back, push_front, pop_back and pop_front
\* calls on an initially empty list, each pop returns what a reference
\* double-ended queue returns and len() is the reference length after every
\* call.
C1_DequeRefinement == [][\A l \in Lists : op'.l = l => DequeStep(l)]_vars

\* ------------------------------------------------------------------ C2
\* C2: front() and back() (and their _mut forms) return none if and only if
\* len() = 0, and otherwise the first and the last element of the sequence.
C2_FrontBack ==
  \A l \in Lists :
    (pc = "idle" /\ dropped = {}) =>
      LET q == Elems(World, l)
      IN /\ (front(World, l) = <<>>) <=> (list[l].len = 0)
         /\ (back(World, l) = <<>>) <=> (list[l].len = 0)
         /\ list[l].len # 0 =>
              /\ Len(q) = list[l].len
              /\ front(World, l) = <<q[1]>>
              /\ back(World, l) = <<q[Len(q)]>>

\* ------------------------------------------------------------------ C3
\* C3: whenever len() = 0, pop_front() and pop_back() return none and leave
\* len, capacity, head, tail and the free list unchanged.
C3_PopEmpty ==
  \A l \in Lists :
    (Callable(l) /\ list[l].len = 0) =>
      /\ pop_front(World, l) = [w |-> World, ret |-> <<>>, panicked |-> FALSE]
      /\ pop_back(World, l) = [w |-> World, ret |-> <<>>, panicked |-> FALSE]

\* ------------------------------------------------------------------ C4
Other(l) == IF l = "a" THEN "b" ELSE "a"

\* C4: after a.append(b) the element sequence of a, read front to back and
\* back to front, is old(a) followed by old(b), and len(a) is the sum of the
\* two old lengths.
C4_AppendSequence ==
  [][op'.name = "append" =>
       LET a == op'.l
           b == Other(op'.l)
           q == Elems(World, a) \o Elems(World, b)
       IN /\ Elems(World', a) = q
          /\ ElemsBack(World', a) = Reverse(q)
          /\ list'[a].len = list[a].len + list[b].len]_vars

\* ------------------------------------------------------------------ C5
\* C5: after a.append(b), a.capacity() is the sum of the two old capacities
\* and b is a valid empty list (len 0, head and tail none, capacity 0, no chunk
\* descriptor, empty free list); every chunk descriptor and every free slot
\* of a or b beforehand belongs to a exactly once afterwards.
C5_AppendOwnership ==
  [][op'.name = "append" =>
       LET a == op'.l
           b == Other(op'.l)
           chunks == list[a].allocations \o list[b].allocations
           free == FreeSlots(World, a) \o FreeSlots(World, b)
           free1 == FreeSlots(World', a)
       IN /\ list'[a].capacity = list[a].capacity + list[b].capacity
          /\ list'[b] = [NewList EXCEPT !.chunk_size = list[b].chunk_size]
          /\ Len(list'[a].allocations) = Len(chunks)
          /\ SeqToSet(list'[a].allocations) = SeqToSet(chunks)
          /\ Len(free1) = Len(free)
          /\ NoDuplicates(free1)
          /\ SeqToSet(free1) = SeqToSet(free)]_vars

\* ------------------------------------------------------------------ C6
\* the arguments f was called with, and the replacement values it returned
CallArgs(calls) == [i \in 1..Len(calls) |-> calls[i].arg]
RECURSIVE Replacements(_)
Replacements(calls) ==
  IF calls = <<>> THEN <<>>
  ELSE calls[1].ret \o Replacements(Tail(calls))
IsPrefix(s, t) == Len(s) <= Len(t) /\ s = SubSeq(t, 1, Len(s))

\* C6: with a callback that returns normally, retain_map calls f once per
\* element in the original order, and leaves the element sequence equal to
\* the replacement values f returned, len equal to their number and capacity
\* equal to its value before the call.
C6_RetainMap ==
  op.name = "retain_map" /\ ~op.panicked =>
    /\ pc = "retain_map" =>
         IsPrefix(Append(CallArgs(frame.calls), frame.arg), frame.old)
    /\ pc = "idle" =>
         /\ CallArgs(frame.calls) = frame.old
         /\ Elems(World, frame.l) = Replacements(frame.calls)
         /\ ElemsBack(World, frame.l) = Reverse(Replacements(frame.calls))
         /\ list[frame.l].len = Len(Replacements(frame.calls))
         /\ list[frame.l].capacity = frame.capacity

\* ------------------------------------------------------------------ C7
EmptyList(w, l) ==
  /\ w.list[l].len = 0 /\ w.list[l].head = NULL /\ w.list[l].tail = NULL
  /\ front(w, l) = <<>> /\ back(w, l) = <<>>

\* C7: in every step of a retain_map call the chunk descriptors stay as they
\* are and no slot loses its value except the one whose value is moved into
\* f; when f panics the list is empty (len 0, head and tail none, front() and
\* back() none) and the unwinding runs no destructor.
C7_RetainPanic ==
  [][op'.name = "retain_map" =>
       /\ list'[op'.l].allocations = list[op'.l].allocations
       /\ released' = released
       /\ init \ init' \subseteq {frame'.ptr}
       /\ op'.panicked => EmptyList(World', op'.l) /\ init' = init]_vars

\* f panics at the second of three elements: one element is decided and one
\* is left behind with its value
C7_Witness ==
  /\ op.name = "retain_map" /\ op.panicked /\ pc = "idle"
  /\ Len(frame.calls) >= 1
  /\ frame.next_ptr \in init

\* ------------------------------------------------------------------ C8
DecidedRetained(calls) == {calls[i].slot : i \in {j \in 1..Len(calls) : calls[j].ret # <<>>}}
DecidedDiscarded(calls) == {calls[i].slot : i \in {j \in 1..Len(calls) : calls[j].ret = <<>>}}
PanickedRetain == op.name = "retain_map" /\ op.panicked /\ pc = "idle"

\* C8 as stated: after f fails, the nodes decided as retained are elements of
\* the list, the nodes decided as discarded are on the free list, and the
\* rest of the chain still owns its values.
C8_DecidedCommitted ==
  PanickedRetain =>
    /\ DecidedRetained(frame.calls) \subseteq SeqToSet(IterSlots(World, frame.l))
    /\ DecidedDiscarded(frame.calls) \subseteq SeqToSet(FreeSlots(World, frame.l))

\* C8 amended: after f fails, the nodes decided as discarded are on the free
\* list; the nodes decided as retained are not elements of the list, which is
\* empty and reaches none of them from its head or tail.
C8_DecidedAbandoned ==
  PanickedRetain =>
    /\ DecidedDiscarded(frame.calls) \subseteq SeqToSet(FreeSlots(World, frame.l))
    /\ IterSlots(World, frame.l) = <<>>
    /\ IterBackSlots(World, frame.l) = <<>>
    /\ list[frame.l].head \notin DecidedRetained(frame.calls)
    /\ list[frame.l].tail \notin DecidedRetained(frame.calls)

\* f fails at the third element after one node was retained and one discarded
C8_Witness ==
  /\ PanickedRetain
  /\ DecidedRetained(frame.calls) # {}
  /\ DecidedDiscarded(frame.calls) # {}

\* ------------------------------------------------------------------ C9
\* C9: after clear(), also when a destructor panics in it, len() is 0,
\* front() and back() are none, capacity is what it was, no chunk is released
\* and every formerly live slot is on the free list.
C9_Clear ==
  [][op'.name = "clear" =>
       LET l == op'.l
       IN /\ EmptyList(World', l)
          /\ list'[l].capacity = list[l].capacity
          /\ list'[l].allocations = list[l].allocations
          /\ released' = released
          /\ SeqToSet(IterSlots(World, l))
               \subseteq SeqToSet(FreeSlots(World', l))]_vars

\* ----------------------------------------------------------------- C10
\* C10: dropping a list runs the destructor exactly once on each of its len
\* live values and on no free slot, and releases every chunk exactly once.
C10_Drop ==
  [][op'.name = "drop" =>
       LET l == op'.l
       IN /\ ~fault'
          /\ Len(op'.ret) = list[l].len
          /\ NoDuplicates(op'.ret)
          /\ SeqToSet(op'.ret) = SeqToSet(IterSlots(World, l))
          /\ SeqToSet(op'.ret) \cap SeqToSet(FreeSlots(World, l)) = {}
          /\ released' = released \o list[l].allocations
          /\ NoDuplicates(released')]_vars

\* ----------------------------------------------------------------- C11
\* C11: clear() with destructors that do not panic runs the destructor exactly
\* once on each value that was live before the call and on no slot that was
\* already free.
C11_ClearDrops ==
  [][op'.name = "clear" /\ ~op'.panicked =>
       LET l == op'.l
       IN /\ ~fault'
          /\ Len(op'.ret) = list[l].len
          /\ NoDuplicates(op'.ret)
          /\ SeqToSet(op'.ret) = SeqToSet(IterSlots(World, l))
          /\ SeqToSet(op'.ret) \cap SeqToSet(FreeSlots(World, l)) = {}]_vars

\* ----------------------------------------------------------------- C12
\* the cursor c is on the element of index c.index of its list
AtIndex(w, c) ==
  /\ c.index < Len(IterSlots(w, c.list))
  /\ IterSlots(w, c.list)[c.index + 1] = c.cursor

\* s with v put in as the element of (zero-based) index k
InsertAt(s, k, v) == SubSeq(s, 1, k) \o <<v>> \o SubSeq(s, k + 1, Len(s))
\* s without its element of (zero-based) index k
RemoveAt(s, k) == SubSeq(s, 1, k) \o SubSeq(s, k + 2, Len(s))

\* C12: insert_next(v) on a mutable cursor at index i of a list with sequence
\* s makes the sequence s[0..i] ++ [v] ++ s[i+1..], raises len by 1, leaves
\* the cursor on the same element with index i, and makes v the back() when i
\* was len - 1.
C12_InsertNext ==
  [][op'.name = "insert_next" /\ AtIndex(World, cur) =>
       LET l == cur.list
           s == Elems(World, l)
           i == cur.index
       IN \E v \in Values :
            /\ Elems(World', l) = InsertAt(s, i + 1, v)
            /\ ElemsBack(World', l) = Reverse(InsertAt(s, i + 1, v))
            /\ list'[l].len = list[l].len + 1
            /\ cur' = cur
            /\ i = list[l].len - 1 => back(World', l) = <<v>>]_vars

\* ----------------------------------------------------------------- C13
\* C13: insert_prev(v) on a mutable cursor at index i of a list with sequence
\* s makes the sequence s[0..i-1] ++ [v] ++ s[i..], raises len by 1, leaves
\* the cursor on the same element with index i + 1, and makes v the front()
\* when i was 0.
C13_InsertPrev ==
  [][op'.name = "insert_prev" /\ AtIndex(World, cur) =>
       LET l == cur.list
           s == Elems(World, l)
           i == cur.index
       IN \E v \in Values :
            /\ Elems(World', l) = InsertAt(s, i, v)
            /\ ElemsBack(World', l) = Reverse(InsertAt(s, i, v))
            /\ list'[l].len = list[l].len + 1
            /\ cur' = create(l, cur.cursor, i + 1)
            /\ i = 0 => front(World', l) = <<v>>]_vars

\* ----------------------------------------------------------------- C14
\* the call removed the element of index c.index from list l and returned it
Removed(c) ==
  LET l == c.list
      s == Elems(World, l)
      i == c.index
  IN /\ ~op'.panicked
     /\ op'.ret = <<s[i + 1]>>
     /\ Elems(World', l) = RemoveAt(s, i)
     /\ ElemsBack(World', l) = Reverse(RemoveAt(s, i))
     /\ list'[l].len = list[l].len - 1

\* C14: remove() on a mutable cursor at index i of a list with sequence s
\* returns s[i], leaves s without its i-th element, lowers len by 1, puts the
\* removed slot on the free list and leaves head and tail on the new first
\* and last element (none when the list becomes empty).
C14_Remove ==
  [][op'.name = "remove" /\ AtIndex(World, cur) =>
       LET l == cur.list
           rest == RemoveAt(IterSlots(World, l), cur.index)
       IN /\ Removed(cur)
          /\ cur.cursor \in SeqToSet(FreeSlots(World', l))
          /\ list'[l].head = IF rest = <<>> THEN NULL ELSE rest[1]
          /\ list'[l].tail = IF rest = <<>> THEN NULL ELSE rest[Len(rest)]]_vars

\* ----------------------------------------------------------------- C15
\* C15: remove_go_next() on a mutable cursor at index i removes and returns
\* element i, and returns a cursor on the former element i+1 with index i if
\* there is one, none exactly when the removed element was the last.
C15_RemoveGoNext ==
  [][op'.name = "remove_go_next" /\ AtIndex(World, cur) =>
       LET l == cur.list
           slots == IterSlots(World, l)
           i == cur.index
       IN /\ Removed(cur)
          /\ IF i + 1 < Len(slots)
             THEN pc' = "cursor" /\ cur' = create(l, slots[i + 2], i)
             ELSE pc' = "idle"]_vars

\* ----------------------------------------------------------------- C16
\* C16: remove_go_prev() on a mutable cursor at index i removes and returns
\* element i, and returns a cursor on the former element i-1 with index i-1
\* if there is one (also when the removed element was the last of the list),
\* none exactly when the removed element was the first.
C16_RemoveGoPrev ==
  [][op'.name = "remove_go_prev" /\ AtIndex(World, cur) =>
       LET l == cur.list
           slots == IterSlots(World, l)
           i == cur.index
       IN /\ Removed(cur)
          /\ IF i > 0
             THEN pc' = "cursor" /\ cur' = create(l, slots[i], i - 1)
             ELSE pc' = "idle"]_vars

\* ----------------------------------------------------------------- C17
\* C17: cursor_mut_front/cursor_ref_front and cursor_mut_back/cursor_ref_back
\* return none if and only if the list is empty, and otherwise a cursor on
\* the first element with index 0 or on the last element with index len - 1;
\* and a cursor that was moved, inserted or removed through has as index the
\* position of its element in the list's sequence.
C17_CursorPosition ==
  /\ Callable("a") =>
       \A l \in Lists :
         LET f == cursor_mut_front(World, l)
             b == cursor_mut_back(World, l)
         IN /\ ~f.panicked /\ ~b.panicked
            /\ f.some <=> list[l].len # 0
            /\ b.some <=> list[l].len # 0
            /\ f.some => f.c.index = 0 /\ AtIndex(World, f.c)
            /\ b.some => b.c.index = list[l].len - 1 /\ AtIndex(World, b.c)
  /\ pc = "cursor" => AtIndex(World, cur)

\* ----------------------------------------------------------------- C18
\* C18: from any cursor, when next() succeeds and prev() on its result
\* succeeds, the final cursor is ptr_eq to the original and has its index;
\* and likewise for prev() then next().
C18_NextPrev ==
  pc = "cursor" /\ cur.cursor \in Slots =>
    /\ next(World, cur).some /\ prev(World, next(World, cur).c).some =>
         /\ prev(World, next(World, cur).c).c.cursor = cur.cursor
         /\ prev(World, next(World, cur).c).c.index = cur.index
    /\ prev(World, cur).some /\ next(World, prev(World, cur).c).some =>
         /\ next(World, prev(World, cur).c).c.cursor = cur.cursor
         /\ next(World, prev(World, cur).c).c.index = cur.index

\* ----------------------------------------------------------------- C19
\* C19: a cursor obtained from the list and moved with next/prev or
\* go_next/go_prev is on a live element of the list: stepping forward fails
\* and is_back() is true exactly on the last element, stepping backward fails
\* and is_front() is true exactly on the first, and the cursor is never on a
\* slot of the free list.
C19_CursorLive ==
  pc = "cursor" =>
    /\ cur.cursor \in init
    /\ AtIndex(World, cur)
    /\ cur.cursor \notin SeqToSet(FreeSlots(World, cur.list))
    /\ is_back(World, cur) <=> cur.index = list[cur.list].len - 1
    /\ ~next(World, cur).some <=> cur.index = list[cur.list].len - 1
    /\ is_front(World, cur) <=> cur.index = 0
    /\ ~prev(World, cur).some <=> cur.index = 0

\* ----------------------------------------------------------------- C20
\* C20: swap(v) on a mutable cursor at index i returns the element's
\* previous value, makes v the value at the cursor's index, and leaves len,
\* capacity, the free list, the order of the elements, all other values and
\* the cursor's position unchanged.
C20_Swap ==
  [][op'.name = "swap" /\ AtIndex(World, cur) =>
       LET l == cur.list
           s == Elems(World, l)
           i == cur.index
       IN /\ op'.ret = <<s[i + 1]>>
          /\ \E v \in Values : Elems(World', l) = [s EXCEPT ![i + 1] = v]
          /\ IterSlots(World', l) = IterSlots(World, l)
          /\ IterBackSlots(World', l) = IterBackSlots(World, l)
          /\ FreeSlots(World', l) = FreeSlots(World, l)
          /\ list' = list
          /\ init' = init
          /\ \A n \in Slots \ {cur.cursor} : node'[n] = node[n]
          /\ node'[cur.cursor].next = node[cur.cursor].next
          /\ node'[cur.cursor].prev = node[cur.cursor].prev
          /\ cur' = cur]_vars

\* ----------------------------------------------------------------- C21
\* C21: for a mutable cursor at index i of a list with sequence s of length
\* n, iter_to_tail yields exactly s[i..n-1] in order, iter_from_tail the same
\* items reversed, iter_from_head exactly s[0..i] in order, and iter_to_head
\* the same items reversed.
C21_CursorIter ==
  [][op'.name \in {"iter_to_tail", "iter_from_tail", "iter_from_head",
                   "iter_to_head"}
       /\ AtIndex(World, cur) =>
       LET s == Elems(World, cur.list)
           i == cur.index
           to_tail == SubSeq(s, i + 1, Len(s))
           from_head == SubSeq(s, 1, i + 1)
           yields == Collect(World', it')
       IN /\ ~op'.panicked /\ pc' = "iter"
          /\ op'.name = "iter_to_tail" => yields = to_tail
          /\ op'.name = "iter_from_tail" => yields = Reverse(to_tail)
          /\ op'.name = "iter_from_head" => yields = from_head
          /\ op'.name = "iter_to_head" => yields = Reverse(from_head)]_vars

\* ----------------------------------------------------------------- C22
\* C22: for an iterator over a list with sequence s of length n, under any
\* interleaving of next() and next_back(), the k-th next() returns s[k-1],
\* the m-th next_back() returns s[n-m], no element is yielded twice, exactly
\* n items are yielded in total, and every call after that returns none.
C22_IterInterleaving ==
  [][op'.name \in {"next", "next_back"} /\ it.ctor \in {"iter", "into_iter"} =>
       LET s == it.s
           n == it.n
           k == it.fronts
           m == it.backs
       IN /\ ~op'.panicked
          /\ Len(s) = n
          /\ IF k + m < n
             THEN /\ op'.name = "next" => op'.ret = <<s[k + 1]>>
                  /\ op'.name = "next_back" => op'.ret = <<s[n - m]>>
                  /\ NoDuplicates(it'.handed)
                  /\ it'.fronts + it'.backs = k + m + 1
             ELSE op'.ret = <<>> /\ it' = it]_vars

\* ----------------------------------------------------------------- C23
\* C23: for an owning iterator made by into_iter, every element value is
\* either handed to the caller or destroyed by the iterator, exactly once,
\* and every chunk is released exactly once at the end of the iterator,
\* whether it is drained, partly drained from either end, dropped untouched
\* or consumed through count() or last().
C23_IntoIterOwnership ==
  [][it.kind = "into_iter" =>
       /\ op'.name \in {"next", "next_back"} => ~fault' /\ ~op'.panicked
       /\ op'.name \in {"iter_drop", "count", "last"} =>
            LET all == op'.handed \o op'.drops
            IN /\ ~fault' /\ ~op'.panicked
               /\ NoDuplicates(all)
               /\ SeqToSet(all) = init \cup SeqToSet(it.handed)
               /\ init' = {}
               /\ released' = it.i.allocations
               /\ NoDuplicates(released')]_vars

\* ----------------------------------------------------------------- C24
\* C24: round trip: building a new list by push_back from the elements of a
\* reachable list in iteration order (clone) yields a list that compares
\* equal to the original, element by element and in length.
C24_RoundTrip ==
  [][op'.name = "clone" =>
       /\ ~op'.panicked /\ ~fault'
       /\ list'["b"].len = list'["a"].len
       /\ Elems(World', "b") = Elems(World', "a")
       /\ Elems(World', "a") = Elems(World, "a")
       /\ Len(Elems(World', "b")) = list'["b"].len
       /\ eq(World', "a", "b").ret /\ ~eq(World', "a", "b").panicked
       /\ eq(World', "b", "a").ret]_vars

\* ----------------------------------------------------------------- C25
RECURSIVE PushesFit(_, _, _)
\* n calls of push_back on list l find a free slot each, so none allocates
PushesFit(w, l, n) ==
  \/ n = 0
  \/ /\ w.list[l].unused_nodes # NULL
     /\ PushesFit(push_back(w, l, 1), l, n - 1)

Max(a, b) == IF a >= b THEN a ELSE b

\* C25: reserve(additional) changes nothing if capacity - len >= additional;
\* otherwise it allocates exactly one chunk of
\* max(additional - (capacity - len), chunk_size) slots, after which
\* capacity - len >= additional and additional pushes need no allocation;
\* len and the element sequence are unchanged.
C25_Reserve ==
  [][op'.name = "reserve" =>
       LET l == op'.l
           L == list[l]
           additional == op'.arg
           free == L.capacity - L.len
       IN /\ ~op'.panicked
          /\ list'[l].len = L.len
          /\ Elems(World', l) = Elems(World, l)
          /\ IF free >= additional
             THEN list' = list /\ node' = node /\ brk' = brk
             ELSE /\ list'[l].allocations
                       = Append(L.allocations,
                                <<brk + 1,
                                  Max(additional - free, L.chunk_size)>>)
                  /\ list'[l].capacity
                       = L.capacity + Max(additional - free, L.chunk_size)
                  /\ list'[l].capacity - list'[l].len >= additional
                  /\ PushesFit(World', l, additional)]_vars

C27_Grow ==
  [][op'.name \in {"push_back", "push_front", "insert_next", "insert_prev"} =>
       LET l == op'.l
           L == list[l]
       IN IF L.len = L.capacity
          THEN /\ list'[l].capacity = L.capacity + L.chunk_size
               /\ list'[l].allocations
                    = Append(L.allocations, <<brk + 1, L.chunk_size>>)
          ELSE /\ list'[l].capacity = L.capacity
               /\ list'[l].allocations = L.allocations
               /\ brk' = brk
               /\ \E n \in SeqToSet(FreeSlots(World, l)) :
                    init' \ init = {n}]_vars

\* ----------------------------------------------------------------- C28
\* C28: set_chunk_size(0) panics and leaves chunk_size and all other state of
\* the list unchanged, so chunk_size > 0 in every reachable state;
\* set_chunk_size(n) with n > 0 changes only chunk_size, and only the size of
\* later allocations depends on it, not the existing capacity.
C28_ChunkSize ==
  [][/\ \A l \in Lists : list'[l].chunk_size > 0
     /\ op'.name = "set_chunk_size" =>
          /\ node' = node /\ brk' = brk /\ init' = init
          /\ IF op'.arg = 0
             THEN op'.panicked /\ list' = list
             ELSE /\ ~op'.panicked
                  /\ list' = [list EXCEPT ![op'.l].chunk_size = op'.arg]
     /\ LET L == list[op'.l]
            allocated == list'[op'.l].allocations # L.allocations
        IN (op'.name \in {"push_back", "push_front"} /\ allocated) =>
             /\ list'[op'.l].allocations
                  = Append(L.allocations, <<brk + 1, L.chunk_size>>)
             /\ list'[op'.l].capacity = L.capacity + L.chunk_size]_vars

\* set_chunk_size(2) on a list that holds one element in a chunk of one slot
C28_Witness ==
  /\ op.name = "set_chunk_size" /\ op.arg = 2 /\ ~op.panicked
  /\ list["a"].chunk_size = 2
  /\ list["a"].allocations = <<<<1, 1>>>>
  /\ list["a"].capacity = 1 /\ list["a"].len = 1

\* ----------------------------------------------------------------- C29
Min(a, b) == IF a <= b THEN a ELSE b

\* C29: when append merges the two free lists, the free list that is walked
\* node by node to its end is the shorter of the two: the number of free
\* slots visited is at most min(free slots of self, free slots of other) as
\* they were before the call.
C29_AppendWalk ==
  [][op'.name = "append" =>
       Len(op'.walked) <= Min(Len(FreeSlots(World, op'.l)),
                              Len(FreeSlots(World, Other(op'.l))))]_vars

\* ----------------------------------------------------------------- C30
\* the call returned to its caller in this step without a panic
Returned == pc' # "retain_map" /\ ~op'.panicked

Counted ==
  {"push_back", "push_front", "pop_back", "pop_front", "clear", "reserve",
   "reserve_exact", "append", "retain_map", "insert_next", "insert_prev",
   "remove", "remove_go_next", "remove_go_prev"}

\* C31: after every public operation that returns normally (push, pop, clear,
\* reserve, reserve_exact, append, retain_map, cursor insert and remove),
\* len() equals capacity() minus the number of slots on the free list.
C31_FreeCount ==
  [][(op'.name \in Counted /\ ~op'.panicked /\ pc' # "retain_map") =>
       list'[op'.l].len
         = list'[op'.l].capacity - Len(FreeSlots(World', op'.l))]_vars

\* ----------------------------------------------------------------- C32
\* C32: in every reachable state with a non-empty list, the head node's prev
\* link and the tail node's next link are both null; in particular right
\* after pop_back, after pop_front and after a retain_map that discards the
\* trailing elements.
C32_EndLinks ==
  \A l \in Lists :
    (l \notin dropped /\ ~fault /\ list[l].len > 0) =>
      /\ list[l].head \in Slots /\ node[list[l].head].prev = NULL
      /\ list[l].tail \in Slots /\ node[list[l].tail].next = NULL

\* ----------------------------------------------------------------- C33
\* C33: in every reachable state, following next from head for len - 1 steps
\* passes through len distinct live nodes and arrives at tail, following prev
\* from tail passes through the same nodes in reverse order and arrives at
\* head, and adjacent live nodes a, b have a.next = b and b.prev = a.
C33_Chain ==
  \A l \in Lists :
    (l \notin dropped /\ ~fault /\ list[l].len > 0) =>
      LET n == list[l].len
          f == IterSlots(World, l)
          b == IterBackSlots(World, l)
      IN /\ Len(f) = n
         /\ NoDuplicates(f)
         /\ SeqToSet(f) \subseteq init
         /\ f[n] = list[l].tail
         /\ b = Reverse(f)
         /\ \A i \in 1..(n - 1) :
              /\ node[f[i]].next = f[i + 1]
              /\ node[f[i + 1]].prev = f[i]

\* ----------------------------------------------------------------- C34
\* the slots reachable from head by following next until null
LiveSlots(w, l) == WalkNext(w.node, w.list[l].head, MaxSlots + 1)

\* C34: in every reachable state every allocated slot of a list is in exactly
\* one of two sets, the slots reachable from head by next (live) and the
\* slots reachable from the free-list head (free); no slot is in both, none
\* occurs twice in the free list, and together they are exactly capacity
\* slots.
C34_Partition ==
  \A l \in Lists :
    (l \notin dropped /\ ~fault /\ pc = "idle") =>
      LET live == LiveSlots(World, l)
          free == FreeSlots(World, l)
          owned == UNION {(c[1])..(c[1] + c[2] - 1) :
                            c \in SeqToSet(list[l].allocations)}
      IN /\ SeqToSet(live) \cap SeqToSet(free) = {}
         /\ NoDuplicates(free)
         /\ NoDuplicates(live)
         /\ SeqToSet(live) \cup SeqToSet(free) = owned
         /\ Len(live) + Len(free) = list[l].capacity

\* ----------------------------------------------------------------- C35
\* C35: while the callback of retain_map runs, and so in the state observed
\* when it panics, capacity is the capacity before the call minus the number
\* of nodes that were live when retain_map was called.
C35_CallbackCapacity ==
  [][/\ (pc = "idle" /\ pc' = "retain_map") =>
          list'[frame'.l].capacity
            = list[frame'.l].capacity - list[frame'.l].len
     /\ (pc = "retain_map" /\ (pc' = "retain_map" \/ op'.panicked)) =>
          list'[frame.l].capacity = list[frame.l].capacity]_vars

\* ----------------------------------------------------------------- C36
\* C36: an element that stays in the list occupies the same slot from its
\* insertion until its removal: push, pop, cursor insert and remove, reserve,
\* append (for the elements of both lists) and retain_map (for the retained
\* elements) take a value out of no slot but that of the element they remove,
\* put a value into no slot but a free one, and leave every other live slot
\* live with its value; retain_map writes the replacement into the slot the
\* element was read from (where f finds it again if the chain leads back to
\* that slot).
C36_SlotStable ==
  [][LET n == op'.name
         l == op'.l
     IN /\ n \in {"push_back", "push_front", "insert_next", "insert_prev",
                  "pop_back", "pop_front", "remove", "remove_go_next",
                  "remove_go_prev", "reserve", "reserve_exact", "append",
                  "retain_map"} =>
             \A s \in init \cap init' : node'[s].value = node[s].value
        /\ n \in {"push_back", "push_front", "insert_next", "insert_prev"} =>
             /\ init \subseteq init'
             /\ init' \ init \subseteq SeqToSet(FreeSlots(World', l))
                                         \cup SeqToSet(FreeSlots(World, l))
                                         \cup ((brk + 1)..brk')
        /\ n \in {"reserve", "reserve_exact", "append"} => init' = init
        /\ n = "pop_back" => init \ init' \subseteq {list[l].tail}
        /\ n = "pop_front" => init \ init' \subseteq {list[l].head}
        /\ n \in {"remove", "remove_go_next", "remove_go_prev"} =>
             init \ init' \subseteq {cur.cursor}
        /\ n \in {"pop_back", "pop_front", "remove", "remove_go_next",
                  "remove_go_prev"} => init' \subseteq init
        /\ (n = "retain_map" /\ pc = "idle") =>
             /\ init \ init' \subseteq {list[l].head}
             /\ init' \subseteq init
        /\ (n = "retain_map" /\ pc = "retain_map" /\ ~op'.panicked) =>
             LET c == frame'.calls[Len(frame'.calls)]
             IN /\ c.slot = frame.ptr
                /\ init' \ init \subseteq {frame.ptr}
                /\ init \ init' \subseteq {frame.next_ptr}
                /\ c.ret # <<>> =>
                     IF pc' = "retain_map" /\ frame'.ptr = c.slot
                     THEN frame'.arg = c.ret[1]
                     ELSE /\ c.slot \in init'
                          /\ node'[c.slot].value = c.ret[1]]_vars

\* append has returned: the element of the first list and the element of
\* the second are both in the first list, each in the slot it had
C36_Witness ==
  /\ op.name = "append" /\ ~fault
  /\ Elems(World, "a") = <<1, 2>>
  /\ SeqToSet(IterSlots(World, "a")) \subseteq init
  /\ NoDuplicates(IterSlots(World, "a"))

\* ----------------------------------------------------------------- C37
\* C37: for every iterator built from a reachable list (iter, iter_mut,
\* into_iter and the cursor's sub-range iterators) and any interleaving of
\* next() and next_back(), whenever the remaining count is greater than 0
\* the iterator's head and tail are non-null pointers to live nodes, so the
\* debug assertions of next, next_back and last never fail.
C37_IterEnds ==
  /\ (pc = "iter" /\ ~fault /\ it.i.len > 0) =>
       /\ it.i.head \in init
       /\ it.i.tail \in init
  /\ op.name \in {"next", "next_back", "last", "count"} => ~op.panicked

\* ----------------------------------------------------------------- C38
\* C38: no unsigned counter underflows in any reachable state: pop_back,
\* pop_front and the cursor's remove, remove_go_next and remove_go_prev
\* decrement len only when len > 0, prev, go_prev and remove_go_prev
\* decrement the cursor's index only when index > 0, and len <= capacity
\* always holds.
C38_NoUnderflow ==
  /\ op.name \in {"pop_back", "pop_front", "remove", "remove_go_next",
                  "remove_go_prev", "prev", "go_prev"} => ~op.panicked
  /\ \A l \in Lists : l \notin dropped => list[l].len <= list[l].capacity

\* ----------------------------------------------------------------- C39
RECURSIVE Lexicographic(_, _)
\* the lexicographic order of two sequences of integers
Lexicographic(s, t) ==
  IF s = <<>> THEN (IF t = <<>> THEN "Equal" ELSE "Less")
  ELSE IF t = <<>> THEN "Greater"
  ELSE IF s[1] < t[1] THEN "Less"
  ELSE IF s[1] > t[1] THEN "Greater"
  ELSE Lexicographic(Tail(s), Tail(t))

\* C39: a.cmp(b) is the lexicographic comparison of the element sequences of
\* a and b (a strict prefix compares Less than the longer list), so a.cmp(b)
\* is Equal if and only if a == b under the list's own equality.
C39_Cmp ==
  [][op'.name = "cmp" =>
       LET a == op'.l
           b == Other(op'.l)
       IN /\ ~op'.panicked
          /\ op'.ret = <<Lexicographic(Elems(World, a), Elems(World, b))>>
          /\ (op'.ret = <<"Equal">>) <=> eq(World, a, b).ret]_vars
====
